---- MODULE Spec2Model ----
(***************************************************************************)
(* Lexical core of Avdan-OS/Jason (a JSON5 reader).                        *)
(*                                                                         *)
(* src/src/lex/tokens.rs: the hand-written trivia and identifier lexers,   *)
(* the Token dispatcher and the InputElement loop of tests::lexxing_tests. *)
(*                                                                         *)
(* A source text is a sequence of characters; a character is a string      *)
(* (printable ones stand for themselves, the others are named: "VT",       *)
(* "FF", "NBSP", "LS", "PS", "IDSP" = U+3000).  A Loc is the 0-based       *)
(* index of a character, a cursor is the number of characters taken.       *)
(***************************************************************************)
EXTENDS Integers, Sequences, FiniteSets, TLC

\* Longest enumerated source text.
MaxLen == 3

\* Option::None of a peeked character.
None == "None"

\* ------------------------------------------------------------------------
\* Cursor (SourceIter) and Span
\* ------------------------------------------------------------------------

\* SourceIter::peek: the upcoming character, None at end of input.
SourceIter_peek(inp, p) == IF p < Len(inp) THEN inp[p + 1] ELSE None

\* SourceIter::peek2: the character after the upcoming one.
SourceIter_peek2(inp, p) == IF p + 1 < Len(inp) THEN inp[p + 2] ELSE None

NoSpan == [start |-> -1, end |-> -1]

\* Span::single_char(loc)
Span_single_char(loc) == [start |-> loc, end |-> loc]

\* TryIntoSpan::try_into_span(start..=end): None for a reversed range.
try_into_span(s, e) == IF e < s THEN NoSpan ELSE [start |-> s, end |-> e]

\* ------------------------------------------------------------------------
\* Outcomes of one lex call: the result, the node, its span, the cursor
\* afterwards and (for the dispatchers) the alternatives attempted.
\* "Panic" is an abort of the program (an unwrap of None).
\* ------------------------------------------------------------------------

Matched(node, span, p) ==
    [res |-> "Matched", node |-> node, span |-> span, pos |-> p, tried |-> <<>>]

NoMatch(p) ==
    [res |-> "NoMatch", node |-> <<>>, span |-> NoSpan, pos |-> p, tried |-> <<>>]

Malformed(p) ==
    [res |-> "Malformed", node |-> <<>>, span |-> NoSpan, pos |-> p, tried |-> <<>>]

Panic(p) ==
    [res |-> "Panic", node |-> <<>>, span |-> NoSpan, pos |-> p, tried |-> <<>>]

\* `Some(Self(try_into_span(start..=end)?))`: None when the span is refused.
SomeSpanned(node, s, e, p) ==
    IF try_into_span(s, e) = NoSpan THEN NoMatch(p)
    ELSE Matched(node, try_into_span(s, e), p)

\* ------------------------------------------------------------------------
\* Unicode minor categories (finl_unicode) of the characters of the model
\* ------------------------------------------------------------------------

LowercaseLetters ==
    {"a", "b", "c", "d", "e", "f", "m", "n", "o", "r", "t", "u", "v", "x"}

get_minor_category(ch) ==
    CASE ch \in LowercaseLetters -> "Ll"
      [] ch \in {"A", "B", "C", "D", "E", "F"} -> "Lu"
      [] ch \in {"0", "1", "2", "3", "4", "5", "6", "7", "8", "9"} -> "Nd"
      [] ch \in {" ", "NBSP", "IDSP"} -> "Zs"
      [] ch \in {"\t", "VT", "FF", "\n", "\r"} -> "Cc"
      [] ch = "LS" -> "Zl"
      [] ch = "PS" -> "Zp"
      [] ch = "_" -> "Pc"
      [] ch = "$" -> "Sc"
      [] ch \in {"{", "["} -> "Ps"
      [] ch \in {"}", "]"} -> "Pe"
      [] ch = "-" -> "Pd"
      [] ch = "+" -> "Sm"
      [] ch \in {"ZWNJ", "ZWJ"} -> "Cf"
      [] OTHER -> "Po"

\* ------------------------------------------------------------------------
\* WhiteSpace
\* ------------------------------------------------------------------------

\* A whitespace test without the category Zs.
is_whitespace_listed_only(ch) ==
    ch \in {"\t", "VT", "FF", " ", "NBSP"}

is_whitespace(ch) ==
    \/ ch = "\t"
    \/ ch = "VT"
    \/ ch = "FF"
    \/ ch = " "
    \/ ch = "NBSP"
    \/ get_minor_category(ch) = "Zs"

WhiteSpace_peek(inp, p) ==
    /\ SourceIter_peek(inp, p) # None
    /\ is_whitespace(SourceIter_peek(inp, p))

\* The `while let Some(ch) = input.peek()` loop: the cursor and `end` after it.
RECURSIVE WhiteSpace_lex_loop(_, _, _)

\* A loop that stops after one more character.
WhiteSpace_lex_loop_once(inp, p, end) ==
    IF SourceIter_peek(inp, p) # None /\ is_whitespace(SourceIter_peek(inp, p))
    THEN [pos |-> p + 1, end |-> p]
    ELSE [pos |-> p, end |-> end]

WhiteSpace_lex_loop(inp, p, end) ==
    IF SourceIter_peek(inp, p) # None /\ is_whitespace(SourceIter_peek(inp, p))
    THEN WhiteSpace_lex_loop(inp, p + 1, p)
    ELSE [pos |-> p, end |-> end]

\* A lexer that takes the character before testing it.
WhiteSpace_lex_takes_first(inp, p) ==
    IF SourceIter_peek(inp, p) = None THEN NoMatch(p)
    ELSE IF ~is_whitespace(SourceIter_peek(inp, p)) THEN NoMatch(p + 1)
    ELSE LET l == WhiteSpace_lex_loop(inp, p + 1, p)
         IN  SomeSpanned(<<"WhiteSpace">>, p, l.end, l.pos)

WhiteSpace_lex(inp, p) ==
    IF SourceIter_peek(inp, p) = None THEN NoMatch(p)
    ELSE IF ~is_whitespace(SourceIter_peek(inp, p)) THEN NoMatch(p)
    ELSE LET l == WhiteSpace_lex_loop(inp, p + 1, p)
         IN  SomeSpanned(<<"WhiteSpace">>, p, l.end, l.pos)

\* ------------------------------------------------------------------------
\* LineTerminator, LineTerminatorSeq
\* ------------------------------------------------------------------------

\* <LF>, <CR>, <LS>, <PS>
LineTerminators == {"\n", "\r", "LS", "PS"}

LineTerminator_peek(inp, p) == SourceIter_peek(inp, p) \in LineTerminators

LineTerminator_lex(inp, p) ==
    IF SourceIter_peek(inp, p) = None THEN NoMatch(p)
    ELSE IF SourceIter_peek(inp, p) \in LineTerminators
         THEN Matched(<<"LineTerminator">>, Span_single_char(p), p + 1)
         ELSE NoMatch(p)

LineTerminatorSeq_peek(inp, p) ==
    \/ SourceIter_peek(inp, p) = "\r" /\ SourceIter_peek2(inp, p) = "\n"
    \/ SourceIter_peek(inp, p) \in LineTerminators

\* A lexer without the <CR><LF> arm.
LineTerminatorSeq_lex_single_only(inp, p) ==
    IF SourceIter_peek(inp, p) = None THEN NoMatch(p)
    ELSE IF SourceIter_peek(inp, p) \in LineTerminators
         THEN Matched(<<"LineTerminatorSeq">>, Span_single_char(p), p + 1)
         ELSE NoMatch(p)

LineTerminatorSeq_lex(inp, p) ==
    IF SourceIter_peek(inp, p) = None THEN NoMatch(p)
    ELSE IF SourceIter_peek(inp, p) = "\r" /\ SourceIter_peek2(inp, p) = "\n"
         THEN SomeSpanned(<<"LineTerminatorSeq">>, p, p + 1, p + 2)
    ELSE IF SourceIter_peek(inp, p) \in LineTerminators
         THEN Matched(<<"LineTerminatorSeq">>, Span_single_char(p), p + 1)
         ELSE NoMatch(p)

\* ------------------------------------------------------------------------
\* Comments
\* ------------------------------------------------------------------------

SingleLineComment_peek(inp, p) ==
    SourceIter_peek(inp, p) = "/" /\ SourceIter_peek2(inp, p) = "/"

\* `while !LineTerminator::peek(input) { end = input.next().unwrap().0; }`
\* At end of input LineTerminator::peek is false and next() is None: the
\* unwrap aborts.
RECURSIVE SingleLineComment_lex_loop(_, _, _)
SingleLineComment_lex_loop(inp, p, end) ==
    IF LineTerminator_peek(inp, p) THEN [panic |-> FALSE, pos |-> p, end |-> end]
    ELSE IF p >= Len(inp) THEN [panic |-> TRUE, pos |-> p, end |-> end]
    ELSE SingleLineComment_lex_loop(inp, p + 1, p)

SingleLineComment_lex(inp, p) ==
    IF ~SingleLineComment_peek(inp, p) THEN NoMatch(p)
    ELSE LET start == p
             l == SingleLineComment_lex_loop(inp, p + 2, start)
         IN  IF l.panic THEN Panic(l.pos)
             ELSE SomeSpanned(<<"SingleLineComment">>, start, l.end, l.pos)

MultiLineComment_peek_end(inp, p) ==
    SourceIter_peek(inp, p) = "*" /\ SourceIter_peek2(inp, p) = "/"

MultiLineComment_peek(inp, p) ==
    SourceIter_peek(inp, p) = "/" /\ SourceIter_peek2(inp, p) = "*"

\* `while !Self::peek_end(input) { _ = input.next().unwrap().0; }`
RECURSIVE MultiLineComment_lex_loop(_, _)
MultiLineComment_lex_loop(inp, p) ==
    IF MultiLineComment_peek_end(inp, p) THEN [panic |-> FALSE, pos |-> p]
    ELSE IF p >= Len(inp) THEN [panic |-> TRUE, pos |-> p]
    ELSE MultiLineComment_lex_loop(inp, p + 1)

MultiLineComment_lex(inp, p) ==
    IF ~MultiLineComment_peek(inp, p) THEN NoMatch(p)
    ELSE LET start == p
             l == MultiLineComment_lex_loop(inp, p + 2)
         IN  IF l.panic THEN Panic(l.pos)
             ELSE SomeSpanned(<<"MultiLineComment">>, start, l.pos + 1, l.pos + 2)

\* ------------------------------------------------------------------------
\* LIdentifier
\* ------------------------------------------------------------------------

is_unicode_letter(ch) ==
    get_minor_category(ch) \in {"Lu", "Ll", "Lt", "Lm", "Lo", "Nl"}

is_unicode_combining_mark(ch) == get_minor_category(ch) \in {"Mn", "Mc"}

is_unicode_digit(ch) == get_minor_category(ch) = "Nd"

is_unicode_connector_punctuation(ch) == get_minor_category(ch) = "Pc"

\* UnicodeEscapeSequence::peek: the marker `u` is upcoming.
UnicodeEscapeSequence_peek(inp, p) == SourceIter_peek(inp, p) = "u"

\* On a backslash a fork is advanced and dropped; the escape is then peeked
\* on `input` itself, the cursor still at the backslash.
is_identifier_start(inp, p) ==
    LET ch == SourceIter_peek(inp, p)
    IN  IF ch = None THEN FALSE
        ELSE IF is_unicode_letter(ch) THEN TRUE
        ELSE IF ch \in {"$", "_"} THEN TRUE
        ELSE IF ch = "\\" THEN UnicodeEscapeSequence_peek(inp, p)
        ELSE FALSE

is_identifier_part(inp, p) ==
    IF is_identifier_start(inp, p) THEN TRUE
    ELSE LET ch == SourceIter_peek(inp, p)
         IN  IF ch = None THEN FALSE
             ELSE \/ is_unicode_combining_mark(ch)
                  \/ is_unicode_digit(ch)
                  \/ is_unicode_connector_punctuation(ch)
                  \/ ch \in {"ZWNJ", "ZWJ"}

LIdentifier_peek_middle(inp, p) == is_identifier_part(inp, p)

LIdentifier_peek(inp, p) == is_identifier_start(inp, p)

\* `while Self::peek_middle(input) { end = input.next().unwrap().0; }`
RECURSIVE LIdentifier_lex_loop(_, _, _)
LIdentifier_lex_loop(inp, p, end) ==
    IF LIdentifier_peek_middle(inp, p)
    THEN LIdentifier_lex_loop(inp, p + 1, p)
    ELSE [pos |-> p, end |-> end]

LIdentifier_lex(inp, p) ==
    IF ~LIdentifier_peek(inp, p) THEN NoMatch(p)
    ELSE LET start == p
             l == LIdentifier_lex_loop(inp, p + 1, start + 1)
         IN  SomeSpanned(<<"LIdentifier">>, start, l.end, l.pos)

\* ------------------------------------------------------------------------
\* Derived lexers: #[Lex('c')] on a struct, #[Lex] on an enum
\* ------------------------------------------------------------------------

\* A value wrapped in a variant of the enclosing enum.
Wrap(variant, r) ==
    IF r.res = "Matched" THEN [r EXCEPT !.node = <<variant>> \o r.node] ELSE r

\* #[Lex('c')]: the one character c, as a single-character span.
CharToken_lex(name, c, inp, p) ==
    IF SourceIter_peek(inp, p) = c
    THEN Matched(<<name>>, Span_single_char(p), p + 1)
    ELSE NoMatch(p)

\* The variants of Punct, in declaration order.
PunctVariants ==
    << <<"OpenBrace", "{">>, <<"CloseBrace", "}">>, <<"OpenBracket", "[">>,
       <<"CloseBracket", "]">>, <<"Colon", ":">>, <<"Comma", ",">> >>

\* #[Lex] on Punct: the first variant, from the i-th on, that matches.
RECURSIVE Punct_lex_from(_, _, _)
Punct_lex_from(i, inp, p) ==
    IF i > Len(PunctVariants) THEN NoMatch(p)
    ELSE LET r == CharToken_lex(PunctVariants[i][1], PunctVariants[i][2], inp, p)
         IN  IF r.res = "NoMatch" THEN Punct_lex_from(i + 1, inp, r.pos)
             ELSE Wrap(PunctVariants[i][1], r)

Punct_lex(inp, p) == Punct_lex_from(1, inp, p)

\* #[Lex] on Comment: MultiLine, then SingleLine.
Comment_lex(inp, p) ==
    LET m == MultiLineComment_lex(inp, p)
    IN  IF m.res # "NoMatch" THEN Wrap("MultiLine", m)
        ELSE Wrap("SingleLine", SingleLineComment_lex(inp, m.pos))

\* ------------------------------------------------------------------------
\* LString and Number: their grammar is outside this model.  What a call at
\* a cursor can answer is an input of the dispatcher.
\* ------------------------------------------------------------------------

Quotes == {"\"", "'"}

NumberChars == {"0", "1", "2", "3", "4", "5", "6", "7", "8", "9", "+", "-", "."}

\* A string runs from a quote to a later occurrence of the same quote, or is
\* malformed; nothing else is a string.
LString_outcomes(inp, p) ==
    IF SourceIter_peek(inp, p) \notin Quotes THEN {NoMatch(p)}
    ELSE {Matched(<<"LString">>, [start |-> p, end |-> q], q + 1) :
             q \in {q \in (p + 1)..(Len(inp) - 1) : inp[q + 1] = inp[p + 1]}}
         \cup {Malformed(q) : q \in (p + 1)..Len(inp)}

\* A number is a run of numeric characters, or is malformed.
Number_outcomes(inp, p) ==
    IF SourceIter_peek(inp, p) \notin NumberChars THEN {NoMatch(p)}
    ELSE {Matched(<<"Number">>, [start |-> p, end |-> q - 1], q) :
             q \in {q \in (p + 1)..Len(inp) :
                      \A k \in (p + 1)..q : inp[k] \in NumberChars}}
         \cup {Malformed(q) : q \in (p + 1)..Len(inp)}

\* ------------------------------------------------------------------------
\* Token and InputElement
\* ------------------------------------------------------------------------

Tried(r, attempts) == [r EXCEPT !.tried = attempts]

\* A dispatcher that goes on to Number after a malformed String.
Token_lex_downgrades_malformed(inp, p) ==
    LET i == LIdentifier_lex(inp, p)
        pu == Punct_lex(inp, i.pos)
        ti == <<"Identifier", i.res>>
        tp == <<"Punctuator", pu.res>>
    IN  IF i.res # "NoMatch" THEN {Tried(Wrap("Identifier", i), <<ti>>)}
        ELSE IF pu.res # "NoMatch"
        THEN {Tried(Wrap("Punctuator", pu), <<ti, tp>>)}
        ELSE UNION {
               IF str.res = "Matched"
               THEN {Tried(Wrap("String", str), <<ti, tp, <<"String", str.res>>>>)}
               ELSE {Tried(Wrap("Number", num),
                           <<ti, tp, <<"String", str.res>>, <<"Number", num.res>>>>) :
                       num \in Number_outcomes(inp, p)} :
               str \in LString_outcomes(inp, pu.pos)}

\* Token::lex: Identifier, Punctuator, String, Number, each attempted at the
\* cursor the attempt before it left.  `into_lex_result()?` returns a
\* Malformed at once.  The set of results: one per answer of LString::lex
\* and Number::lex.  `tried` lists the attempts made and what each returned.
Token_lex(inp, p) ==
    LET i == LIdentifier_lex(inp, p)
        pu == Punct_lex(inp, i.pos)
        ti == <<"Identifier", i.res>>
        tp == <<"Punctuator", pu.res>>
    IN  IF i.res # "NoMatch" THEN {Tried(Wrap("Identifier", i), <<ti>>)}
        ELSE IF pu.res # "NoMatch"
        THEN {Tried(Wrap("Punctuator", pu), <<ti, tp>>)}
        ELSE UNION {
               IF str.res # "NoMatch"
               THEN {Tried(Wrap("String", str), <<ti, tp, <<"String", str.res>>>>)}
               ELSE {Tried(Wrap("Number", num),
                           <<ti, tp, <<"String", str.res>>, <<"Number", num.res>>>>) :
                       num \in Number_outcomes(inp, str.pos)} :
               str \in LString_outcomes(inp, pu.pos)}

\* #[Lex] on InputElement: LineTerminator, WhiteSpace, Comment, Token.
InputElement_lex(inp, p) ==
    LET lt == LineTerminator_lex(inp, p)
        ws == WhiteSpace_lex(inp, lt.pos)
        co == Comment_lex(inp, ws.pos)
        tl == <<"LineTerminator", lt.res>>
        tw == <<"WhiteSpace", ws.res>>
        tc == <<"Comment", co.res>>
    IN  IF lt.res # "NoMatch" THEN {Tried(Wrap("LineTerminator", lt), <<tl>>)}
        ELSE IF ws.res # "NoMatch"
        THEN {Tried(Wrap("WhiteSpace", ws), <<tl, tw>>)}
        ELSE IF co.res # "NoMatch"
        THEN {Tried(Wrap("Comment", co), <<tl, tw, tc>>)}
        ELSE {Tried(Wrap("Token", tk), <<tl, tw, tc, <<"Token", tk.res>>>>) :
                tk \in Token_lex(inp, co.pos)}

\* ------------------------------------------------------------------------
\* src/src/lexing/tokens/escapes.rs: escape sequences, over a SourceStream
\* ------------------------------------------------------------------------

\* SourceStream::peek_n(n): the character n places ahead, 0 the upcoming one.
SourceStream_peek_n(inp, p, n) == IF p + n < Len(inp) THEN inp[p + n + 1] ELSE None

\* SourceStream::upcoming("c"): the upcoming character is c.
upcoming(c, inp, p) == SourceStream_peek_n(inp, p, 0) = c

\* Lex::lex, the entry every caller uses (`input.lex()`, `T::lex(input)`):
\* nothing unless T::peek holds, and then whatever LexT::lex of T returns.
Lex_lex(pk, r, p) == IF pk THEN r ELSE NoMatch(p)

\* LexResult::or: the alternative is attempted only after nothing.
LexResult_or(r, alt) == IF r.res = "NoMatch" THEN alt ELSE r

\* LexResult::unwrap_as_result: nothing is not a result.
unwrap_as_result(r) == IF r.res = "NoMatch" THEN Panic(r.pos) ELSE r

is_line_terminator(ch) == ch \in LineTerminators

HexDigits ==
    {"0", "1", "2", "3", "4", "5", "6", "7", "8", "9",
     "a", "b", "c", "d", "e", "f", "A", "B", "C", "D", "E", "F"}

HexDigit_peek(inp, p) == SourceStream_peek_n(inp, p, 0) \in HexDigits

HexDigit_lex(inp, p) == Matched(<<"HexDigit">>, Span_single_char(p), p + 1)

\* Verbatim<"c"> of one character
Verbatim_peek(c, inp, p) == upcoming(c, inp, p)

Verbatim_lex(c, inp, p) == Matched(<<"Verbatim", c>>, Span_single_char(p), p + 1)

\* Exactly<n, T>::lex, T one of HexDigit, HexEscapeSequence and
\* UnicodeEscapeSequence: n matches of T from the cursor on, each through
\* Lex::lex; a missing one is an error where it was looked for.  `first` is
\* the Loc of the first character.
RECURSIVE Exactly_lex(_, _, _, _, _)

\* SpanIter::combine of two spans in source order
combine2(a, b) == [start |-> a.start, end |-> b.end]

is_single_escape_char(ch) ==
    ch \in {"'", "\"", "\\", "b", "f", "n", "r", "t", "v"}

SingleEscapeChar_peek(inp, p) ==
    /\ SourceStream_peek_n(inp, p, 0) # None
    /\ is_single_escape_char(SourceStream_peek_n(inp, p, 0))

\* `input.take().unwrap()`
SingleEscapeChar_lex(inp, p) ==
    IF p >= Len(inp) THEN Panic(p)
    ELSE Matched(<<"SingleEscapeChar", inp[p + 1]>>, Span_single_char(p), p + 1)

\* An escape-character test that forgets the decimal digits.
is_escape_char_without_digits(ch) ==
    \/ is_single_escape_char(ch)
    \/ ch \in {"x", "u"}

\* An escape-character test that forgets the marker `x`.
is_escape_char_without_x(ch) ==
    \/ is_single_escape_char(ch)
    \/ ch \in {"0", "1", "2", "3", "4", "5", "6", "7", "8", "9", "u"}

is_escape_char(ch) ==
    \/ is_single_escape_char(ch)
    \/ ch \in {"0", "1", "2", "3", "4", "5", "6", "7", "8", "9", "x", "u"}

NonEscapeChar_peek(inp, p) ==
    /\ SourceStream_peek_n(inp, p, 0) # None
    /\ ~(\/ is_line_terminator(SourceStream_peek_n(inp, p, 0))
         \/ is_escape_char(SourceStream_peek_n(inp, p, 0)))

NonEscapeChar_lex(inp, p) ==
    IF p >= Len(inp) THEN Panic(p)
    ELSE Matched(<<"NonEscapeChar", inp[p + 1]>>, Span_single_char(p), p + 1)

CharacterEscapeSequence_peek(inp, p) ==
    SingleEscapeChar_peek(inp, p) \/ NonEscapeChar_peek(inp, p)

CharacterEscapeSequence_lex(inp, p) ==
    LET s == Lex_lex(SingleEscapeChar_peek(inp, p), SingleEscapeChar_lex(inp, p), p)
    IN  unwrap_as_result(
          LexResult_or(Wrap("Single", s),
            Wrap("NonEscape",
                 Lex_lex(NonEscapeChar_peek(inp, s.pos),
                         NonEscapeChar_lex(inp, s.pos), s.pos))))

\* Null::peek without the negative lookahead on the following digit.
Null_peek_no_lookahead(inp, p) ==
    upcoming("0", inp, p)

Null_peek(inp, p) ==
    /\ upcoming("0", inp, p)
    /\ SourceStream_peek_n(inp, p, 1) \notin
         {"0", "1", "2", "3", "4", "5", "6", "7", "8", "9"}

Null_lex(inp, p) ==
    IF p >= Len(inp) THEN Panic(p)
    ELSE Matched(<<"Null">>, Span_single_char(p), p + 1)

\* A peek that also answers to the marker of the Unicode escape.
HexEscapeSequence_peek_either_marker(inp, p) ==
    Verbatim_peek("x", inp, p) \/ Verbatim_peek("u", inp, p)

HexEscapeSequence_peek(inp, p) == Verbatim_peek("x", inp, p)

\* `Ok(Self(LexT::lex(input)?, LexT::lex(input)?))`
Escape_lex(name, marker, digits, inp, p) ==
    LET v == Verbatim_lex(marker, inp, p)
        e == Exactly_lex(digits, "HexDigit", inp, v.pos, v.pos)
    IN  IF e.res # "Matched" THEN e
        ELSE Matched(<<name>>, combine2(v.span, e.span), e.pos)

\* HexEscapeSequence(v!('x'), Exactly<2, HexDigit>)
HexDigitsOfHexEscape == 2

\* UnicodeEscapeSequence(v!('u'), Exactly<4, HexDigit>)
UnicodeDigits == 4

\* An escape that asks for one digit too few.
HexEscapeSequence_lex_one_digit(inp, p) ==
    Escape_lex("HexEscapeSequence", "x", HexDigitsOfHexEscape - 1, inp, p)

HexEscapeSequence_lex(inp, p) ==
    Escape_lex("HexEscapeSequence", "x", HexDigitsOfHexEscape, inp, p)

UnicodeEscapeSequence_lex(inp, p) ==
    Escape_lex("UnicodeEscapeSequence", "u", UnicodeDigits, inp, p)

\* T::peek and LexT::lex of the item types of Exactly
Item_peek(T, inp, p) ==
    CASE T = "HexDigit" -> HexDigit_peek(inp, p)
      [] T = "HexEscapeSequence" -> HexEscapeSequence_peek(inp, p)
      [] T = "UnicodeEscapeSequence" -> UnicodeEscapeSequence_peek(inp, p)

Item_lex(T, inp, p) ==
    CASE T = "HexDigit" -> HexDigit_lex(inp, p)
      [] T = "HexEscapeSequence" -> HexEscapeSequence_lex(inp, p)
      [] T = "UnicodeEscapeSequence" -> UnicodeEscapeSequence_lex(inp, p)

Exactly_lex(n, T, inp, p, first) ==
    IF n = 0 THEN Matched(<<"Exactly", T>>, try_into_span(first, p - 1), p)
    ELSE LET d == Lex_lex(Item_peek(T, inp, p), Item_lex(T, inp, p), p)
         IN  IF d.res = "Matched" THEN Exactly_lex(n - 1, T, inp, d.pos, first)
             ELSE IF d.res = "Panic" THEN d
             ELSE Malformed(d.pos)

\* Exactly<n, T>::peek: a first T is upcoming.
Exactly_peek(T, inp, p) == Item_peek(T, inp, p)

EscapeSequence_peek(inp, p) ==
    \/ CharacterEscapeSequence_peek(inp, p)
    \/ Null_peek(inp, p)
    \/ HexEscapeSequence_peek(inp, p)
    \/ UnicodeEscapeSequence_peek(inp, p)

EscapeSequence_lex(inp, p) ==
    LET c == Lex_lex(CharacterEscapeSequence_peek(inp, p),
                     CharacterEscapeSequence_lex(inp, p), p)
        n == Lex_lex(Null_peek(inp, c.pos), Null_lex(inp, c.pos), c.pos)
        h == Lex_lex(HexEscapeSequence_peek(inp, n.pos),
                     HexEscapeSequence_lex(inp, n.pos), n.pos)
        u == Lex_lex(UnicodeEscapeSequence_peek(inp, h.pos),
                     UnicodeEscapeSequence_lex(inp, h.pos), h.pos)
    IN  unwrap_as_result(
          LexResult_or(Wrap("CharacterEscapeSequence", c),
            LexResult_or(Wrap("Null", n),
              LexResult_or(Wrap("HexEscapeSequence", h),
                           Wrap("UnicodeEscapeSequence", u)))))

\* ------------------------------------------------------------------------
\* #[derive(Spanned)]: macros/src/spanned.rs
\*
\* An item is a struct, [kind |-> "struct", fields |-> F], or an enum,
\* [kind |-> "enum", variants |-> <<[ident |-> v, fields |-> F], ...>>];
\* its fields F are [style |-> "Named" | "Unnamed" | "Unit", list |-> the
\* fields in declaration order], a field being [ident |-> name, ty |-> type]
\* (the ident of a tuple field is "").  A member is written as a string: the
\* field's name, or its index.
\* ------------------------------------------------------------------------

\* Most fields of a struct or of a variant, most variants of an enum.
MaxFields == 2

MaxVariants == 2

\* No expression: Option::None of spanned_for_struct / spanned_for_enum.
NoExpr == [op |-> "none"]

\* `self.member`
field_access(member) == <<"self", member>>

\* The member of a tuple field: its 0-based index.
index(i) == ToString(i)

\* crate::common::Spanned::span(& expr)
span_of(expr) == [op |-> "span", of |-> expr]

\* crate::common::SpanIter::combine([span_of(expr), ..])
spans_of(exprs) ==
    [op |-> "combine", of |-> [k \in 1..Len(exprs) |-> span_of(exprs[k])]]

\* is_named_type(ty, "Span").is_some()
is_named_type(ty, name) == ty = name

\* A search that finds the last field of type Span.
find_span_field_last(list) ==
    LET S == {k \in 1..Len(list) : is_named_type(list[k].ty, "Span")}
    IN  IF S = {} THEN -1 ELSE (CHOOSE k \in S : \A j \in S : k >= j) - 1

\* `fields.iter().enumerate().find(..)`: the 0-based index of the first field
\* of type Span, or -1.
find_span_field(list) ==
    LET S == {k \in 1..Len(list) : is_named_type(list[k].ty, "Span")}
    IN  IF S = {} THEN -1 ELSE (CHOOSE k \in S : \A j \in S : k <= j) - 1

\* What a derive function returns and the diagnostics it emitted on the way.
Derived(expr, diag) == [expr |-> expr, diag |-> diag]

spanned_for_struct(st) ==
    LET fields == st.fields
        list == fields.list
        idx == find_span_field(list)
    IN  IF idx >= 0 /\ fields.style = "Unnamed"
        THEN Derived(span_of(field_access(index(idx))),
                     IF Len(list) > 1 THEN <<"Warning", "Help">> ELSE <<>>)
        ELSE IF idx >= 0 /\ fields.style = "Named"
        THEN Derived(span_of(field_access(list[idx + 1].ident)),
                     IF list[idx + 1].ident # "span"
                     THEN <<"Warning", "Help">> ELSE <<>>)
        ELSE IF fields.style = "Named" /\ Len(list) > 0
        THEN Derived(spans_of([k \in 1..Len(list) |-> field_access(list[k].ident)]),
                     <<>>)
        ELSE IF fields.style = "Unnamed" /\ Len(list) > 0
        THEN Derived(spans_of([k \in 1..Len(list) |-> field_access(index(k - 1))]),
                     <<>>)
        ELSE Derived(NoExpr, <<"Error">>)

\* The arm of one variant: the pattern binds every field, a named field to
\* its own name and a tuple field to f0, f1, ..; the body combines the spans
\* of the bound names in field order.
spanned_variant_arm(var) ==
    LET list == var.fields.list
        members == [k \in 1..Len(list) |->
                      IF list[k].ident # "" THEN list[k].ident ELSE index(k - 1)]
        f_idents == [k \in 1..Len(list) |->
                       IF list[k].ident # "" THEN list[k].ident
                       ELSE "f" \o ToString(k - 1)]
    IN  [path |-> var.ident,
         unreachable |-> var.fields.style = "Unit",
         pat |-> IF var.fields.style = "Named"
                 THEN [k \in 1..Len(list) |-> <<members[k], f_idents[k]>>]
                 ELSE [k \in 1..Len(list) |-> <<index(k - 1), f_idents[k]>>],
         body |-> spans_of(f_idents)]

\* `vars.iter().filter(|v| v.fields.is_empty())...next().is_some()`
HasUnitLikeVariant(vars) ==
    \E k \in 1..Len(vars) : Len(vars[k].fields.list) = 0

spanned_for_enum(en) ==
    LET vars == en.variants
    IN  IF Len(vars) = 0 THEN Derived(NoExpr, <<"Error">>)
        ELSE IF HasUnitLikeVariant(vars) THEN Derived(NoExpr, <<"Error">>)
        ELSE Derived([op |-> "match", on |-> "self",
                      arms |-> [k \in 1..Len(vars) |-> spanned_variant_arm(vars[k])]],
                     <<>>)

\* derive_spanned: an impl of Spanned whose span() is the expression, or no
\* tokens at all.
derive_spanned(d) ==
    [done |-> TRUE, impl |-> d.expr.op # "none", span |-> d.expr, diag |-> d.diag]

\* ------------------------------------------------------------------------
\* The state: one source text, the cursor over it, and the calls made on it
\* ------------------------------------------------------------------------

VARIABLES
    input,    \* the source text
    pos,      \* the cursor: the number of characters taken
    status,   \* "running", "done" (the loop ended), "failed" (a Malformed
              \* result ended the pass), "aborted" (a panic)
    last,     \* the last call: its type, the cursor before it, what the
              \* type's peek answered there, and its outcome
    tokens,   \* the InputElements the loop of lexxing_tests has produced
    test,     \* the driver: "unit" (calls on one lexer of tokens.rs at a
              \* time), "lexxing_tests" (the InputElement loop),
              \* "escapes" (calls on one lexer of escapes.rs at a time) or
              \* "derive" (#[derive(Spanned)] on one item)
    item,     \* the struct or enum that carries #[derive(Spanned)]
    derived   \* what the derive produced for it

vars == <<input, pos, status, last, tokens, test, item, derived>>

\* The characters the enumerated texts are made of.
Alphabet == {" ", "\n", "\r", "/", "*", "_", "1", "{", "\""}

\* The characters the enumerated escapes are made of.
EscAlphabet == {"x", "u", "0", "1", "b", "n", "!", "\n"}

\* The texts of at most n characters of A.
RECURSIVE Texts(_, _)
Texts(A, n) ==
    IF n = 0 THEN {<<>>}
    ELSE Texts(A, n - 1) \cup
         {Append(t, c) : t \in {t \in Texts(A, n - 1) : Len(t) = n - 1}, c \in A}

\* The line of tests::lexxing_tests that holds only trivia and punctuators.
BracesLine == <<"{", " ", " ", " ", " ", " ", "}", ":", ",", "\n">>

FixedTexts ==
    { BracesLine,
      <<"$", "_", "a", "1">>,
      <<"/", "/", " ", "c", "o", "m", "m", "e", "n", "t", "\n">>,
      <<"/", "*", " ", "u", "n", "t", "\n", "*">>,
      <<"/", "*", "a", "\n", "*", "/", "\r", "\n">>,
      <<"\t", "VT", "FF", "NBSP", "IDSP", "LS", "PS", "\\", "u">>,
      <<"\\", "u", "0", "0", "4", "1">> }

Inputs == Texts(Alphabet, MaxLen) \cup FixedTexts

\* The texts of tests::hex_escape and tests::unicode_escape.
HexEscapeTest == <<"x", "2", "0", "x", "2", "6", "x", "2", "5", "x", "3", "c">>

UnicodeEscapeTest ==
    <<"u", "0", "0", "0", "0", "u", "2", "A", "F", "C",
      "u", "6", "7", "9", "8", "u", "1", "6", "2", "3">>

\* A marker, up to a full quad of hex digits, and what may follow them.
\* The text of tests::mixed: nine single escapes, nine non-escapes, a null
\* character, four hex escapes and four Unicode escapes.
MixedTest ==
    <<"'", "\"", "\\", "b", "f", "n", "r", "t", "v",
      "a", "!", "POUND", "%", "*", "&", "-", "=", "POO", "0">>
    \o HexEscapeTest \o UnicodeEscapeTest

MarkerTexts ==
    {<<m>> \o d \o t : m \in {"x", "u"}, d \in Texts({"0", "F"}, UnicodeDigits),
                       t \in {<<>>, <<"!">>, <<"x">>, <<"0">>}}

EscInputs ==
    Texts(EscAlphabet, MaxLen) \cup MarkerTexts
    \cup {HexEscapeTest, UnicodeEscapeTest, MixedTest}

\* The fields a struct or a variant of at most MaxFields fields can have.
FieldTypes == {"Span", "Other"}

NamedFieldAt(k) ==
    {[ident |-> "n" \o ToString(k - 1), ty |-> t] : t \in FieldTypes}
    \cup {[ident |-> "span", ty |-> "Span"]}

UnnamedFieldAt(k) == {[ident |-> "", ty |-> t] : t \in FieldTypes}

RECURSIVE FieldLists(_, _)
FieldLists(named, n) ==
    IF n = 0 THEN {<<>>}
    ELSE LET shorter == FieldLists(named, n - 1)
         IN  shorter \cup
             {Append(l, f) : l \in {l \in shorter : Len(l) = n - 1},
                             f \in IF named THEN NamedFieldAt(n) ELSE UnnamedFieldAt(n)}

DistinctIdents(l) ==
    \A j, k \in 1..Len(l) : l[j].ident = l[k].ident => j = k

UnitFields == [style |-> "Unit", list |-> <<>>]

FieldsSet ==
    {UnitFields}
    \cup {[style |-> "Named", list |-> l] :
            l \in {l \in FieldLists(TRUE, MaxFields) : DistinctIdents(l)}}
    \cup {[style |-> "Unnamed", list |-> l] : l \in FieldLists(FALSE, MaxFields)}

RECURSIVE VariantLists(_)
VariantLists(n) ==
    IF n = 0 THEN {<<>>}
    ELSE LET shorter == VariantLists(n - 1)
         IN  shorter \cup
             {Append(l, [ident |-> "V" \o ToString(n - 1), fields |-> f]) :
                 l \in {l \in shorter : Len(l) = n - 1}, f \in FieldsSet}

Structs == {[kind |-> "struct", fields |-> f, variants |-> <<>>] : f \in FieldsSet}

Enums ==
    {[kind |-> "enum", fields |-> UnitFields, variants |-> v] :
        v \in VariantLists(MaxVariants)}

Items == Structs \cup Enums

NoItem == [kind |-> "none", fields |-> UnitFields, variants |-> <<>>]

NotDerived == [done |-> FALSE, impl |-> FALSE, span |-> NoExpr, diag |-> <<>>]

NoCall == [T |-> "none", before |-> 0, peek |-> FALSE, r |-> NoMatch(0)]

Init ==
    /\ \/ test \in {"unit", "lexxing_tests"} /\ input \in Inputs /\ item = NoItem
       \/ test = "escapes" /\ input \in EscInputs /\ item = NoItem
       \/ test = "derive" /\ input = <<>> /\ item \in Items
    /\ pos = 0
    /\ status = "running"
    /\ last = NoCall
    /\ tokens = <<>>
    /\ derived = NotDerived

StatusAfter(r) ==
    CASE r.res = "Panic" -> "aborted"
      [] r.res = "Malformed" -> "failed"
      [] OTHER -> "running"

\* One call of T::lex on the cursor, T::peek asked just before it.
Call(driver, T, pk, r) ==
    /\ test = driver
    /\ status = "running"
    /\ last' = [T |-> T, before |-> pos, peek |-> pk, r |-> r]
    /\ pos' = r.pos
    /\ status' = StatusAfter(r)
    /\ UNCHANGED <<input, tokens, test, item, derived>>

\* SourceIter::next, SourceStream::take
Take ==
    /\ test \in {"unit", "escapes"}
    /\ status = "running"
    /\ pos < Len(input)
    /\ pos' = pos + 1
    /\ last' = [NoCall EXCEPT !.T = "next", !.before = pos]
    /\ UNCHANGED <<input, status, tokens, test, item, derived>>

LexWhiteSpace ==
    Call("unit", "WhiteSpace", WhiteSpace_peek(input, pos), WhiteSpace_lex(input, pos))

LexLineTerminator ==
    Call("unit", "LineTerminator", LineTerminator_peek(input, pos),
         LineTerminator_lex(input, pos))

LexLineTerminatorSeq ==
    Call("unit", "LineTerminatorSeq", LineTerminatorSeq_peek(input, pos),
         LineTerminatorSeq_lex(input, pos))

LexSingleLineComment ==
    Call("unit", "SingleLineComment", SingleLineComment_peek(input, pos),
         SingleLineComment_lex(input, pos))

LexMultiLineComment ==
    Call("unit", "MultiLineComment", MultiLineComment_peek(input, pos),
         MultiLineComment_lex(input, pos))

LexLIdentifier ==
    Call("unit", "LIdentifier", LIdentifier_peek(input, pos), LIdentifier_lex(input, pos))

\* Token::peek is unimplemented!(): it is never asked.
LexToken == \E r \in Token_lex(input, pos) : Call("unit", "Token", FALSE, r)

\* One turn of `while let Ok(Some(l)) = InputElement::lex(iter).into_lex_result()`.
LexxingLoop ==
    /\ test = "lexxing_tests"
    /\ status = "running"
    /\ \E r \in InputElement_lex(input, pos) :
         /\ last' = [T |-> "InputElement", before |-> pos, peek |-> FALSE, r |-> r]
         /\ pos' = r.pos
         /\ tokens' = IF r.res = "Matched"
                      THEN Append(tokens, [node |-> r.node, span |-> r.span])
                      ELSE tokens
         /\ status' = CASE r.res = "Matched" -> "running"
                        [] r.res = "Panic" -> "aborted"
                        [] OTHER -> "done"
    /\ UNCHANGED <<input, test, item, derived>>

\* A call through Lex::lex on a type of escapes.rs.
CallEsc(T, pk, r) == Call("escapes", T, pk, Lex_lex(pk, r, pos))

LexSingleEscapeChar ==
    CallEsc("SingleEscapeChar", SingleEscapeChar_peek(input, pos),
            SingleEscapeChar_lex(input, pos))

LexNonEscapeChar ==
    CallEsc("NonEscapeChar", NonEscapeChar_peek(input, pos),
            NonEscapeChar_lex(input, pos))

LexCharacterEscapeSequence ==
    CallEsc("CharacterEscapeSequence", CharacterEscapeSequence_peek(input, pos),
            CharacterEscapeSequence_lex(input, pos))

LexNull == CallEsc("Null", Null_peek(input, pos), Null_lex(input, pos))

LexHexEscapeSequence ==
    CallEsc("HexEscapeSequence", HexEscapeSequence_peek(input, pos),
            HexEscapeSequence_lex(input, pos))

LexUnicodeEscapeSequence ==
    CallEsc("UnicodeEscapeSequence", UnicodeEscapeSequence_peek(input, pos),
            UnicodeEscapeSequence_lex(input, pos))

LexEscapeSequence ==
    CallEsc("EscapeSequence", EscapeSequence_peek(input, pos),
            EscapeSequence_lex(input, pos))

\* The escapes that tests::hex_escape and tests::unicode_escape ask for.
EscapesPerTest == 4

ExactlyName(T) ==
    IF T = "HexEscapeSequence" THEN "Exactly<4, HexEscapeSequence>"
    ELSE "Exactly<4, UnicodeEscapeSequence>"

\* `let _: Exactly<4, T> = input.lex()` of tests::hex_escape (T the hex
\* escape) and tests::unicode_escape (T the Unicode escape).
LexExactly ==
    \E T \in {"HexEscapeSequence", "UnicodeEscapeSequence"} :
        CallEsc(ExactlyName(T), Exactly_peek(T, input, pos),
                Exactly_lex(EscapesPerTest, T, input, pos, pos))

\* derive_spanned_for_struct on a struct, derive_spanned_for_enum on an enum.
Derive(kind, d) ==
    /\ test = "derive"
    /\ item.kind = kind
    /\ ~derived.done
    /\ derived' = derive_spanned(d)
    /\ status' = IF d.expr.op = "none" THEN "failed" ELSE "done"
    /\ UNCHANGED <<input, pos, last, tokens, test, item>>

DeriveSpannedForStruct == Derive("struct", spanned_for_struct(item))

DeriveSpannedForEnum == Derive("enum", spanned_for_enum(item))

Next ==
    \/ Take
    \/ LexWhiteSpace
    \/ LexLineTerminator
    \/ LexLineTerminatorSeq
    \/ LexSingleLineComment
    \/ LexMultiLineComment
    \/ LexLIdentifier
    \/ LexToken
    \/ LexxingLoop
    \/ LexSingleEscapeChar
    \/ LexNonEscapeChar
    \/ LexCharacterEscapeSequence
    \/ LexNull
    \/ LexHexEscapeSequence
    \/ LexUnicodeEscapeSequence
    \/ LexEscapeSequence
    \/ LexExactly
    \/ DeriveSpannedForStruct
    \/ DeriveSpannedForEnum

Spec == Init /\ [][Next]_vars

\* ------------------------------------------------------------------------
\* Properties
\* ------------------------------------------------------------------------

HandWritten ==
    {"WhiteSpace", "LineTerminator", "LineTerminatorSeq", "SingleLineComment",
     "MultiLineComment", "LIdentifier"}

EscapeTypes ==
    {"SingleEscapeChar", "NonEscapeChar", "CharacterEscapeSequence", "Null",
     "HexEscapeSequence", "UnicodeEscapeSequence", "EscapeSequence"}

\* The character at the cursor the last call started from, and the next one.
Ch0 == SourceIter_peek(input, last.before)
Ch1 == SourceIter_peek2(input, last.before)

\* A line terminator lies at or after cursor p.
HasLineTerminatorFrom(inp, p) ==
    \E q \in p..(Len(inp) - 1) : inp[q + 1] \in LineTerminators

\* The cursor of the first line terminator at or after cursor p.
FirstLineTerminatorFrom(inp, p) ==
    CHOOSE q \in p..(Len(inp) - 1) :
        /\ inp[q + 1] \in LineTerminators
        /\ \A k \in p..(q - 1) : inp[k + 1] \notin LineTerminators

\* A closing `*/` lies at or after cursor p.
HasCommentEndFrom(inp, p) ==
    \E q \in p..(Len(inp) - 2) : inp[q + 1] = "*" /\ inp[q + 2] = "/"

\* The number of hex digits that follow one another from cursor p on.
RECURSIVE HexRun(_, _)
HexRun(inp, p) ==
    IF p < Len(inp) /\ inp[p + 1] \in HexDigits THEN 1 + HexRun(inp, p + 1) ELSE 0

\* C1: when T::peek is false at the cursor, T::lex of a hand-written token
\* type returns NoMatch and the cursor stays where it was.
C1_PeekFalseLeavesCursor ==
    (last.T \in HandWritten /\ ~last.peek) =>
        (last.r.res = "NoMatch" /\ pos = last.before)

\* A lone slash, after some characters were taken: no comment, nothing taken.
C1_Witness ==
    /\ last.T \in {"SingleLineComment", "MultiLineComment"}
    /\ ~last.peek
    /\ Ch0 = "/"
    /\ last.before > 0
    /\ pos = last.before

BracesLineTokens ==
    << [node |-> <<"Token", "Punctuator", "OpenBrace", "OpenBrace">>,
        span |-> [start |-> 0, end |-> 0]],
       [node |-> <<"WhiteSpace", "WhiteSpace">>, span |-> [start |-> 1, end |-> 5]],
       [node |-> <<"Token", "Punctuator", "CloseBrace", "CloseBrace">>,
        span |-> [start |-> 6, end |-> 6]],
       [node |-> <<"Token", "Punctuator", "Colon", "Colon">>,
        span |-> [start |-> 7, end |-> 7]],
       [node |-> <<"Token", "Punctuator", "Comma", "Comma">>,
        span |-> [start |-> 8, end |-> 8]],
       [node |-> <<"LineTerminator", "LineTerminator">>,
        span |-> [start |-> 9, end |-> 9]] >>

\* C2: the InputElement loop on "{     }:,\n" produces OpenBrace, one
\* WhiteSpace over the five spaces, CloseBrace, Colon, Comma, LineTerminator,
\* with the spans 0, 1..5, 6, 7, 8, 9: at every turn the tokens so far are the
\* first ones of that list, the loop does not abort, and it ends with all six.
C2_BracesLine ==
    (test = "lexxing_tests" /\ input = BracesLine) =>
        /\ status \in {"running", "done"}
        /\ Len(tokens) <= Len(BracesLineTokens)
        /\ tokens = SubSeq(BracesLineTokens, 1, Len(tokens))
        /\ status = "done" => tokens = BracesLineTokens

C2_Witness ==
    /\ test = "lexxing_tests"
    /\ input = BracesLine
    /\ status = "done"
    /\ Len(tokens) = 6
    /\ pos = Len(input)

\* C3: MultiLineComment::lex on a text that opens a comment and never closes
\* it returns Malformed.
C3_UnterminatedIsMalformed ==
    (/\ last.T = "MultiLineComment"
     /\ last.peek
     /\ ~HasCommentEndFrom(input, last.before + 2)) =>
        last.r.res = "Malformed"

\* C4: SingleLineComment::lex on `//` that runs to the end of input without
\* a line terminator returns Matched.
C4_CommentToEndOfInputMatches ==
    (/\ last.T = "SingleLineComment"
     /\ last.peek
     /\ ~HasLineTerminatorFrom(input, last.before + 2)) =>
        last.r.res = "Matched"

\* C5: on `//`, a body and a line terminator, SingleLineComment::lex returns
\* one comment spanning the first slash through the last character before the
\* line terminator and leaves the cursor at the line terminator, which
\* LineTerminator::lex then matches.
C5_CommentSpanUpToTerminator ==
    (/\ last.T = "SingleLineComment"
     /\ last.peek
     /\ HasLineTerminatorFrom(input, last.before + 2)) =>
        LET q == FirstLineTerminatorFrom(input, last.before + 2)
        IN  /\ last.r.res = "Matched"
            /\ last.r.span = [start |-> last.before, end |-> q - 1]
            /\ pos = q
            /\ LineTerminator_lex(input, pos).res = "Matched"

\* C6: LIdentifier::lex returns a span from the start character through the
\* last character it consumed.
C6_IdentifierSpanIsConsumed ==
    (last.T = "LIdentifier" /\ last.r.res = "Matched") =>
        last.r.span = [start |-> last.before, end |-> pos - 1]

\* C7: LineTerminatorSeq::lex takes <CR><LF> as one token spanning both, takes
\* a <CR> not followed by <LF>, an <LF>, <LS> or <PS> as a one-character token,
\* and LineTerminatorSeq::peek is true in exactly these cases.
C7_LineTerminatorSeq ==
    last.T = "LineTerminatorSeq" =>
        /\ last.peek <=> Ch0 \in LineTerminators
        /\ (Ch0 = "\r" /\ Ch1 = "\n") =>
               /\ last.r.res = "Matched"
               /\ pos = last.before + 2
               /\ last.r.span = [start |-> last.before, end |-> last.before + 1]
        /\ (Ch0 \in LineTerminators /\ ~(Ch0 = "\r" /\ Ch1 = "\n")) =>
               /\ last.r.res = "Matched"
               /\ pos = last.before + 1
               /\ last.r.span = [start |-> last.before, end |-> last.before]
        /\ Ch0 \notin LineTerminators => (last.r.res = "NoMatch" /\ pos = last.before)

C7_Witness ==
    /\ last.T = "LineTerminatorSeq"
    /\ Ch0 = "\r"
    /\ Ch1 = "\n"
    /\ last.r.res = "Matched"
    /\ pos = last.before + 2

\* The alternatives of a dispatcher, in the order it attempts them.
Alternatives(T) ==
    IF T = "Token" THEN <<"Identifier", "Punctuator", "String", "Number">>
    ELSE <<"LineTerminator", "WhiteSpace", "Comment", "Token">>

\* C8: Token::lex attempts Identifier, Punctuator, String, Number in that
\* order; every attempt before the last one made returned NoMatch, and the
\* result is what the last attempt returned: the first Matched, or a Malformed
\* at once; the result is NoMatch only after all four returned NoMatch.
\* InputElement::lex does the same over LineTerminator, WhiteSpace, Comment,
\* Token.
C8_OrderedAlternation ==
    last.T \in {"Token", "InputElement"} =>
        LET tr == last.r.tried
            n == Len(tr)
        IN  /\ n \in 1..4
            /\ \A k \in 1..n : tr[k][1] = Alternatives(last.T)[k]
            /\ \A k \in 1..(n - 1) : tr[k][2] = "NoMatch"
            /\ last.r.res = tr[n][2]
            /\ last.r.res = "Matched" => last.r.node[1] = Alternatives(last.T)[n]
            /\ last.r.res = "NoMatch" => n = 4

\* String was malformed: Token::lex returned that, Number was not attempted.
C8_Witness ==
    /\ last.T = "Token"
    /\ last.r.res = "Malformed"
    /\ Len(last.r.tried) = 3
    /\ last.r.tried[3] = <<"String", "Malformed">>

\* C9 as stated: for the token types of escapes.rs, T::peek is true at a
\* cursor exactly when T::lex returns Matched there; for the hex and Unicode
\* escapes, exactly when the marker is followed by all its hex digits.
C9_PeekIffMatched ==
    last.T \in EscapeTypes => (last.peek <=> last.r.res = "Matched")

\* The marker and the number of digits of the escape type T.
MarkerOf(T) == IF T = "HexEscapeSequence" THEN "x" ELSE "u"
DigitsOf(T) == IF T = "HexEscapeSequence" THEN HexDigitsOfHexEscape ELSE UnicodeDigits

\* C9 amended: T::peek is false at a cursor exactly when T::lex returns
\* NoMatch there.  HexEscapeSequence::peek and UnicodeEscapeSequence::peek are
\* true exactly when the marker is upcoming, whatever follows it; lex then
\* returns Matched when all the hex digits follow and Malformed otherwise.
C9_PeekIffNotNoMatch ==
    /\ last.T \in HandWritten \cup EscapeTypes =>
           (last.peek <=> last.r.res # "NoMatch")
    /\ last.T \in {"HexEscapeSequence", "UnicodeEscapeSequence"} =>
           /\ last.peek <=> Ch0 = MarkerOf(last.T)
           /\ last.peek =>
                  /\ last.r.res \in {"Matched", "Malformed"}
                  /\ last.r.res = "Matched" <=>
                         HexRun(input, last.before + 1) >= DigitsOf(last.T)

\* The marker with too few digits: peek is true and lex returns Malformed.
C9_Witness ==
    /\ last.T = "UnicodeEscapeSequence"
    /\ last.peek
    /\ HexRun(input, last.before + 1) = 3
    /\ last.r.res = "Malformed"

\* C10: HexEscapeSequence::lex matches `x` and exactly 2 hex digits,
\* UnicodeEscapeSequence::lex `u` and exactly 4, taking exactly 3 and 5
\* characters; with fewer digits after the marker the result is Malformed.
\* The texts of tests::hex_escape and tests::unicode_escape lex as exactly
\* four escapes that take the whole input.
C10_EscapeDigits ==
    /\ (last.T \in {"HexEscapeSequence", "UnicodeEscapeSequence"}
        /\ Ch0 = MarkerOf(last.T)) =>
           IF HexRun(input, last.before + 1) >= DigitsOf(last.T)
           THEN /\ last.r.res = "Matched"
                /\ pos = last.before + DigitsOf(last.T) + 1
                /\ last.r.span = [start |-> last.before,
                                  end |-> last.before + DigitsOf(last.T)]
           ELSE last.r.res = "Malformed"
    /\ (input = HexEscapeTest /\ last.before = 0
        /\ last.T = "Exactly<4, HexEscapeSequence>") =>
           /\ last.r.res = "Matched"
           /\ pos = Len(input)
           /\ last.r.span = [start |-> 0, end |-> Len(input) - 1]
    /\ (input = UnicodeEscapeTest /\ last.before = 0
        /\ last.T = "Exactly<4, UnicodeEscapeSequence>") =>
           /\ last.r.res = "Matched"
           /\ pos = Len(input)
           /\ last.r.span = [start |-> 0, end |-> Len(input) - 1]

\* tests::hex_escape has run: four escapes of three characters each.
C10_Witness ==
    /\ input = HexEscapeTest
    /\ last.T = "Exactly<4, HexEscapeSequence>"
    /\ last.before = 0
    /\ last.r.res = "Matched"
    /\ pos = Len(input)

\* C11: Null::peek is true, and Null::lex then matches consuming exactly the
\* one character '0' with the span of that character, exactly when the next
\* character is '0' and the one after it is not a decimal digit (or is the end
\* of input); otherwise, as on "01", Null::lex yields NoMatch and the cursor
\* stays where it was.
DecimalDigits == {"0", "1", "2", "3", "4", "5", "6", "7", "8", "9"}

C11_NullLookahead ==
    last.T = "Null" =>
        /\ last.peek <=> (Ch0 = "0" /\ Ch1 \notin DecimalDigits)
        /\ last.peek =>
              /\ last.r.res = "Matched"
              /\ last.r.node = <<"Null">>
              /\ pos = last.before + 1
              /\ last.r.span = [start |-> last.before, end |-> last.before]
        /\ ~last.peek =>
              /\ last.r.res = "NoMatch"
              /\ pos = last.before

\* Null::lex matched the '0' that stands before a non-digit.
C11_Witness ==
    /\ last.T = "Null"
    /\ Ch0 = "0"
    /\ Ch1 = "x"
    /\ last.peek
    /\ last.r.res = "Matched"
    /\ pos = last.before + 1

\* C12: is_identifier_start, and with it LIdentifier::peek, is true on a
\* backslash that begins a valid Unicode escape (backslash, 'u', four
\* hexadecimal digits) and false on a backslash that does not; on any other
\* character it is true exactly for a Unicode letter (Lu, Ll, Lt, Lm, Lo, Nl),
\* '$' and '_'.
BeginsUnicodeEscape(inp, p) ==
    /\ SourceIter_peek(inp, p) = "\\"
    /\ SourceIter_peek(inp, p + 1) = "u"
    /\ HexRun(inp, p + 2) >= UnicodeDigits

C12_IdentifierStart ==
    last.T = "LIdentifier" =>
        (last.peek <=>
            IF Ch0 = "\\" THEN BeginsUnicodeEscape(input, last.before)
            ELSE /\ Ch0 # None
                 /\ \/ get_minor_category(Ch0) \in {"Lu", "Ll", "Lt", "Lm", "Lo", "Nl"}
                    \/ Ch0 \in {"$", "_"})

\* The peek predicates of the variants of EscapeSequence, and of the two
\* variants of CharacterEscapeSequence, that hold at cursor p.
VariantPeeks(inp, p) ==
    {v \in {"CharacterEscapeSequence", "Null", "HexEscapeSequence",
            "UnicodeEscapeSequence"} :
        CASE v = "CharacterEscapeSequence" -> CharacterEscapeSequence_peek(inp, p)
          [] v = "Null" -> Null_peek(inp, p)
          [] v = "HexEscapeSequence" -> HexEscapeSequence_peek(inp, p)
          [] v = "UnicodeEscapeSequence" -> UnicodeEscapeSequence_peek(inp, p)}

CharacterPeeks(inp, p) ==
    {v \in {"Single", "NonEscape"} :
        IF v = "Single" THEN SingleEscapeChar_peek(inp, p)
        ELSE NonEscapeChar_peek(inp, p)}

\* The alternation of EscapeSequence::lex and of CharacterEscapeSequence::lex
\* asked in the opposite order.
EscapeSequence_lex_reversed(inp, p) ==
    LET u == Lex_lex(UnicodeEscapeSequence_peek(inp, p),
                     UnicodeEscapeSequence_lex(inp, p), p)
        h == Lex_lex(HexEscapeSequence_peek(inp, u.pos),
                     HexEscapeSequence_lex(inp, u.pos), u.pos)
        n == Lex_lex(Null_peek(inp, h.pos), Null_lex(inp, h.pos), h.pos)
        ne == Lex_lex(NonEscapeChar_peek(inp, n.pos),
                      NonEscapeChar_lex(inp, n.pos), n.pos)
        si == Lex_lex(SingleEscapeChar_peek(inp, ne.pos),
                      SingleEscapeChar_lex(inp, ne.pos), ne.pos)
        c == LexResult_or(Wrap("NonEscape", ne), Wrap("Single", si))
    IN  LexResult_or(Wrap("UnicodeEscapeSequence", u),
          LexResult_or(Wrap("HexEscapeSequence", h),
            LexResult_or(Wrap("Null", n), Wrap("CharacterEscapeSequence", c))))

\* C13: EscapeSequence::lex classifies by the upcoming character into exactly
\* one variant, whatever the order of the alternation: one of ' " \ b f n r
\* t v is a CharacterEscapeSequence::Single with that raw character; `x` is
\* answered by HexEscapeSequence and `u` by UnicodeEscapeSequence; '0' not
\* followed by a digit is Null; any other character that is neither a line
\* terminator nor a decimal digit is a CharacterEscapeSequence::NonEscape with
\* that raw character; nothing else is an escape.  At every cursor at most
\* one of the four variants' peek predicates holds, and never both
\* SingleEscapeChar's and NonEscapeChar's.
C13_EscapeClassification ==
    /\ Cardinality(VariantPeeks(input, pos)) <= 1
    /\ Cardinality(CharacterPeeks(input, pos)) <= 1
    /\ last.T = "EscapeSequence" =>
          /\ last.r = EscapeSequence_lex_reversed(input, last.before)
          /\ CASE Ch0 \in {"'", "\"", "\\", "b", "f", "n", "r", "t", "v"} ->
                     /\ last.r.res = "Matched"
                     /\ last.r.node = <<"CharacterEscapeSequence", "Single",
                                        "SingleEscapeChar", Ch0>>
                     /\ pos = last.before + 1
                [] Ch0 = "x" ->
                     /\ VariantPeeks(input, last.before) = {"HexEscapeSequence"}
                     /\ last.r = Wrap("HexEscapeSequence",
                                      HexEscapeSequence_lex(input, last.before))
                     /\ last.r.res # "NoMatch"
                [] Ch0 = "u" ->
                     /\ VariantPeeks(input, last.before) = {"UnicodeEscapeSequence"}
                     /\ last.r = Wrap("UnicodeEscapeSequence",
                                      UnicodeEscapeSequence_lex(input, last.before))
                     /\ last.r.res # "NoMatch"
                [] Ch0 = "0" /\ Ch1 \notin DecimalDigits ->
                     /\ last.r.res = "Matched"
                     /\ last.r.node = <<"Null", "Null">>
                     /\ pos = last.before + 1
                [] Ch0 = None \/ Ch0 \in LineTerminators \/ Ch0 \in DecimalDigits ->
                     /\ last.r.res = "NoMatch"
                     /\ pos = last.before
                [] OTHER ->
                     /\ last.r.res = "Matched"
                     /\ last.r.node = <<"CharacterEscapeSequence", "NonEscape",
                                        "NonEscapeChar", Ch0>>
                     /\ pos = last.before + 1

\* The text of tests::mixed, at its hex escapes: `x` with its two digits was
\* lexed as the HexEscapeSequence variant.
C13_Witness ==
    /\ input = MixedTest
    /\ last.T = "EscapeSequence"
    /\ Ch0 = "x"
    /\ last.r.res = "Matched"
    /\ last.r.node = <<"HexEscapeSequence", "HexEscapeSequence">>
    /\ pos = last.before + 3

\* The call was made on a '0' that another decimal digit follows.
AmbiguousLeadingZero ==
    /\ last.T \in {"Null", "EscapeSequence"}
    /\ Ch0 = "0"
    /\ Ch1 \in DecimalDigits

\* C14 (as stated): a '0' immediately followed by another decimal digit
\* surfaces from Null::lex and EscapeSequence::lex as Malformed at the
\* offending location.
C14_LeadingZeroIsMalformed ==
    AmbiguousLeadingZero =>
        (last.r.res = "Malformed" /\ last.r.pos = last.before)

\* C14 (amended): on a '0' immediately followed by another decimal digit the
\* peek of Null and of EscapeSequence is false, and their lex yields NoMatch
\* with the cursor unmoved: neither Malformed nor a match of another variant.
C14_LeadingZeroIsNoMatch ==
    AmbiguousLeadingZero =>
        /\ ~last.peek
        /\ last.r.res = "NoMatch"
        /\ pos = last.before

\* EscapeSequence::lex was asked on "01" and answered NoMatch.
C14_Witness ==
    /\ last.T = "EscapeSequence"
    /\ Ch0 = "0"
    /\ Ch1 = "1"
    /\ last.r.res = "NoMatch"
    /\ pos = last.before

\* <TAB>, <VT>, <FF>, <SP>, <NBSP>, and the characters of category Zs.
WhiteSpaceChars == {"\t", "VT", "FF", " ", "NBSP", "IDSP"}

\* C15: WhiteSpace::peek depends on the next character only, and is true
\* exactly when that character is whitespace.  WhiteSpace::lex takes the
\* maximal run: after a match the span reaches from the first to the last of
\* the consecutive whitespace characters, the cursor stands right behind it,
\* and the next character is the end of input or not whitespace.
C15_WhiteSpaceMaximalRun ==
    last.T = "WhiteSpace" =>
        /\ last.peek <=> Ch0 \in WhiteSpaceChars
        /\ last.r.res = "Matched" <=> last.peek
        /\ last.r.res = "Matched" =>
              /\ pos > last.before
              /\ last.r.span = [start |-> last.before, end |-> pos - 1]
              /\ \A k \in (last.before + 1)..pos : input[k] \in WhiteSpaceChars
              /\ SourceIter_peek(input, pos) \notin WhiteSpaceChars

\* A run of whitespace of several kinds, taken whole up to a character that
\* is not whitespace.
C15_Witness ==
    /\ last.T = "WhiteSpace"
    /\ last.r.res = "Matched"
    /\ pos >= last.before + 3
    /\ input[pos] = "IDSP"
    /\ SourceIter_peek(input, pos) = "LS"

\* The member that names the k-th field of `fields`, and the span of it.
MemberOf(fields, k) ==
    IF fields.style = "Named" THEN fields.list[k].ident ELSE ToString(k - 1)

SpanOfSelf(member) == [op |-> "span", of |-> <<"self", member>>]

\* The positions of the fields of type Span.
SpanTyped(list) == {k \in 1..Len(list) : list[k].ty = "Span"}

\* The arm is the arm of the variant: it matches the variant, binds the
\* variant's fields, and its body combines the spans of all of them in
\* declaration order.
ArmCombinesVariant(arm, var) ==
    LET n == Len(var.fields.list)
    IN  /\ arm.path = var.ident
        /\ ~arm.unreachable
        /\ Len(arm.pat) = n
        /\ arm.body.op = "combine"
        /\ Len(arm.body.of) = n
        /\ \A k \in 1..n :
              /\ arm.pat[k][1] = MemberOf(var.fields, k)
              /\ arm.body.of[k] = [op |-> "span", of |-> arm.pat[k][2]]
        /\ \A j, k \in 1..n : arm.pat[j][2] = arm.pat[k][2] => j = k

\* C16: the span expression #[derive(Spanned)] produces.  A struct with a
\* field of type Span: the span of the first such field, and of no other
\* field.  A struct without one and with at least one field: the combination
\* of the spans of all its fields in declaration order.  An enum: a match
\* whose arm for each variant combines the spans of that variant's fields.
\* A unit-like or zero-field struct, an enum without variants, and an enum
\* with a unit-like variant: an error, and no implementation.
C16_DerivedSpan ==
    (test = "derive" /\ derived.done) =>
        LET list == item.fields.list
            variants == item.variants
        IN  CASE item.kind = "struct" /\ SpanTyped(list) # {} ->
                   /\ derived.impl
                   /\ derived.span =
                        SpanOfSelf(MemberOf(item.fields,
                            CHOOSE k \in SpanTyped(list) :
                                \A j \in SpanTyped(list) : k <= j))
              [] item.kind = "struct" /\ SpanTyped(list) = {} /\ Len(list) >= 1 ->
                   /\ derived.impl
                   /\ derived.span =
                        [op |-> "combine",
                         of |-> [k \in 1..Len(list) |->
                                   SpanOfSelf(MemberOf(item.fields, k))]]
              [] item.kind = "struct" /\ Len(list) = 0 ->
                   /\ ~derived.impl
                   /\ derived.diag = <<"Error">>
              [] item.kind = "enum"
                   /\ (Len(variants) = 0
                       \/ \E v \in 1..Len(variants) : Len(variants[v].fields.list) = 0) ->
                   /\ ~derived.impl
                   /\ derived.diag = <<"Error">>
              [] OTHER ->
                   /\ item.kind = "enum"
                   /\ derived.impl
                   /\ derived.span.op = "match"
                   /\ Len(derived.span.arms) = Len(variants)
                   /\ \A v \in 1..Len(variants) :
                         ArmCombinesVariant(derived.span.arms[v], variants[v])

\* A tuple struct of two fields of type Span: its span is the span of the
\* first of them.
C16_Witness ==
    /\ test = "derive"
    /\ derived.done
    /\ item.kind = "struct"
    /\ item.fields.style = "Unnamed"
    /\ SpanTyped(item.fields.list) = {1, 2}
    /\ derived.impl
    /\ derived.span = SpanOfSelf("0")

\* The call was a call of InputElement::lex or of a lexer of tokens.rs.
TokensCall == last.T = "InputElement" \/ last.T \in HandWritten \/ last.T = "Token"

\* A Matched result took at least one character, and no result moved the
\* cursor backwards.
LexProgress ==
    TokensCall =>
        /\ pos >= last.before
        /\ last.r.res = "Matched" => pos > last.before

\* C17: every Matched result of InputElement::lex and of each trivia or
\* identifier lexer takes at least one character and never moves the cursor
\* backwards, and every lex call returns: none of them aborts, at the end of
\* input or anywhere else, so the loop over InputElement::lex comes to an end
\* on every finite input.
C17_ProgressAndTermination ==
    /\ LexProgress
    /\ TokensCall => last.r.res # "Panic"
    /\ test \in {"unit", "lexxing_tests"} => status # "aborted"

\* The characters the k-th token of the stream took: from the end of the
\* token before it (the start of the text for the first) up to where the
\* call that produced it left the cursor.
FirstTakenBy(k) == IF k = 1 THEN 0 ELSE tokens[k - 1].span.end + 1

\* C18: across the token stream of the InputElement loop every span begins
\* at the first character its lex call took and ends at the last one, so
\* that consecutive spans neither overlap nor leave a taken character
\* uncovered: the first span begins the text, each next span begins right
\* after the span before it, and the span of the token just produced ends
\* right before the cursor.  This includes a one-character identifier, an
\* empty `//` comment before a line terminator, and a multi-line comment.
C18_SpansTileTheStream ==
    test = "lexxing_tests" =>
        /\ \A k \in 1..Len(tokens) :
              /\ tokens[k].span.start = FirstTakenBy(k)
              /\ tokens[k].span.end >= tokens[k].span.start
        /\ (last.T = "InputElement" /\ last.r.res = "Matched") =>
              /\ tokens[Len(tokens)].span.start = last.before
              /\ tokens[Len(tokens)].span.end = pos - 1

====
